---- MODULE Spec2Model ----
(***************************************************************************)
(* A model of pattern_matchingify.py: the rewrite rule that turns a chain  *)
(* of if/elif isinstance(...) branches into a match statement.             *)
(*                                                                         *)
(* AST nodes are records with a "tag" field naming the node class and one  *)
(* field per entry of the class's _fields.  Name nodes also carry the      *)
(* position attribute lineno, so that two occurrences of the same source   *)
(* text are different nodes, as they are in a parsed tree.  Python values  *)
(* held by ast.Constant are records [type, repr].  Python's None is the    *)
(* record NoneValue.                                                       *)
(***************************************************************************)
EXTENDS Integers, Sequences, FiniteSets, TLC

VARIABLES
    pc,        \* position: "start", "loop", "done" in match(); "call", "return" for a helper
    node,      \* match(): the ast.If handed to the rule
    group,     \* match(): IfGroup.from_single(node)
    idx,       \* match(): index of the statement the for loop is at
    cases,     \* match(): the list cases
    subjects,  \* match(): the list subjects
    result,    \* match(): the returned action, or NoneValue
    arg,       \* a helper's argument
    ret        \* a helper's return value

vars == <<pc, node, group, idx, cases, subjects, result, arg, ret>>

----------------------------------------------------------------------------
(* Bounds of the explored inputs. *)

MaxBranches == 3   \* branches of a chain
MaxElts == 3       \* elements of a tuple of type names
MaxGuards == 2     \* comparisons after the isinstance() call of a BoolOp

----------------------------------------------------------------------------
(* Node constructors. *)

NoneValue == [tag |-> "None"]

Name(id, lineno) == [tag |-> "Name", id |-> id, lineno |-> lineno]

Attribute(value, attr) == [tag |-> "Attribute", value |-> value, attr |-> attr]

Call(func, args, keywords) ==
    [tag |-> "Call", func |-> func, args |-> args, keywords |-> keywords]

Keyword(kw, value) == [tag |-> "keyword", arg |-> kw, value |-> value]

TupleNode(elts) == [tag |-> "Tuple", elts |-> elts]

Constant(type, repr) == [tag |-> "Constant", value |-> [type |-> type, repr |-> repr]]

BoolOp(op, values) == [tag |-> "BoolOp", op |-> op, values |-> values]

Compare(left, ops, comparators) ==
    [tag |-> "Compare", left |-> left, ops |-> ops, comparators |-> comparators]

UnaryOp(op, operand) == [tag |-> "UnaryOp", op |-> op, operand |-> operand]

BinOp(left, op, right) == [tag |-> "BinOp", left |-> left, op |-> op, right |-> right]

If(test, body, orelse) == [tag |-> "If", test |-> test, body |-> body, orelse |-> orelse]

Stmt(id) == [tag |-> "Expr", id |-> id]

\* ast_post_init fills the list fields a constructor call leaves out with [].
MatchClass(cls) ==
    [tag |-> "MatchClass", cls |-> cls, patterns |-> <<>>,
     kwd_attrs |-> <<>>, kwd_patterns |-> <<>>]

MatchOr(patterns) == [tag |-> "MatchOr", patterns |-> patterns]

MatchValue(value) == [tag |-> "MatchValue", value |-> value]

MatchSingleton(value) == [tag |-> "MatchSingleton", value |-> value]

MatchAs == [tag |-> "MatchAs"]

match_case(pattern, body) == [tag |-> "match_case", pattern |-> pattern, body |-> body]

Match(subject, cs) == [tag |-> "Match", subject |-> subject, cases |-> cs]

ReplacementAction(n, replacement) ==
    [tag |-> "ReplacementAction", node |-> n, replacement |-> replacement]

Pattern(subject, n) == [tag |-> "Pattern", subject |-> subject, node |-> n]

Case(subject, stmt) == [tag |-> "Case", subject |-> subject, stmt |-> stmt]

IfGroup(stmts, orelse) == [tag |-> "IfGroup", stmts |-> stmts, orelse |-> orelse]

AssertionError == [tag |-> "AssertionError"]

----------------------------------------------------------------------------
(* The expression classes' _fields, in order, each with the kind of value  *)
(* it holds: a node, a list of nodes, a string, a constant's value, a list *)
(* of operator names.  Position attributes are not in _fields.             *)

ast_fields ==
    [Name      |-> << <<"id", "str">> >>,
     Attribute |-> << <<"value", "node">>, <<"attr", "str">> >>,
     Call      |-> << <<"func", "node">>, <<"args", "list">>, <<"keywords", "list">> >>,
     keyword   |-> << <<"arg", "str">>, <<"value", "node">> >>,
     Tuple     |-> << <<"elts", "list">> >>,
     Constant  |-> << <<"value", "const">> >>,
     BoolOp    |-> << <<"op", "str">>, <<"values", "list">> >>,
     Compare   |-> << <<"left", "node">>, <<"ops", "ops">>, <<"comparators", "list">> >>,
     UnaryOp   |-> << <<"op", "str">>, <<"operand", "node">> >>,
     BinOp     |-> << <<"left", "node">>, <<"op", "str">>, <<"right", "node">> >>]

RECURSIVE Flatten(_)
Flatten(ss) == IF ss = <<>> THEN <<>> ELSE Head(ss) \o Flatten(Tail(ss))

\* ast.dump(node): the node's class and fields, serialised; no attributes.
\* The ctx field is left out: every expression read here is in Load context.
RECURSIVE ast_dump(_)
ast_dump(n) ==
    LET fs == ast_fields[n.tag]
        one(f) ==
            LET v == n[f[1]]
            IN  <<f[1], "=">> \o
                CASE f[2] = "node"  -> ast_dump(v)
                  [] f[2] = "list"  ->
                        <<"[">> \o Flatten([i \in 1..Len(v) |-> ast_dump(v[i]) \o <<",">>])
                                \o <<"]">>
                  [] f[2] = "str"   -> <<v>>
                  [] f[2] = "const" -> <<v.repr>>
                  [] f[2] = "ops"   -> <<"[">> \o v \o <<"]">>
    IN  <<n.tag, "(">> \o Flatten([i \in 1..Len(fs) |-> one(fs[i]) \o <<",">>]) \o <<")">>

\* refactor.common.compare_ast(left, right): same class, and equal field by
\* field over _fields.
RECURSIVE compare_ast(_, _)
compare_ast(left, right) ==
    /\ left.tag = right.tag
    /\ LET fs == ast_fields[left.tag]
       IN  \A i \in 1..Len(fs) :
               LET l == left[fs[i][1]]
                   r == right[fs[i][1]]
               IN  CASE fs[i][2] = "node" -> compare_ast(l, r)
                     [] fs[i][2] = "list" ->
                            /\ Len(l) = Len(r)
                            /\ \A k \in 1..Len(l) : compare_ast(l[k], r[k])
                     [] OTHER -> l = r

----------------------------------------------------------------------------
(* The chain flattener. *)

RECURSIVE is_dotted_name(_)
is_dotted_name(n) ==
    CASE n.tag = "Name"      -> TRUE
      [] n.tag = "Attribute" -> is_dotted_name(n.value)
      [] OTHER               -> FALSE

\* A mutation of iter_ifs: the else block is followed whenever it starts with an If.
RECURSIVE iter_ifs_first_of_many(_)
iter_ifs_first_of_many(n) ==
    <<n>> \o (IF Len(n.orelse) >= 1 /\ n.orelse[1].tag = "If"
              THEN iter_ifs_first_of_many(n.orelse[1])
              ELSE <<>>)

RECURSIVE iter_ifs(_)
iter_ifs(n) ==
    <<n>> \o (IF Len(n.orelse) = 1 /\ n.orelse[1].tag = "If"
              THEN iter_ifs(n.orelse[1])
              ELSE <<>>)

IfGroup_from_single(n) ==
    LET stmts == iter_ifs(n)
    IN  IfGroup(stmts, stmts[Len(stmts)].orelse)

----------------------------------------------------------------------------
(* The matcher decorator: an AssertionError raised by the wrapped function *)
(* becomes the return value None.                                          *)

matcher(r) == IF r = AssertionError THEN NoneValue ELSE r

----------------------------------------------------------------------------
(* Pattern.pack and Pattern.unpack. *)

Pattern_pack(subject, patterns) ==
    IF Len(patterns) >= 2
    THEN Pattern(subject, MatchOr(patterns))
    ELSE Pattern(subject, patterns[1])

Pattern_unpack(self) ==
    IF self.node.tag = "MatchOr"
    THEN <<self.subject, self.node.patterns>>
    ELSE <<self.subject, <<self.node>> >>

----------------------------------------------------------------------------
(* match_isinstance: the type-test extractor. *)

\* A mutation of match_isinstance: the keywords and the empty tuple are not checked.
match_isinstance_lax(n) ==
    matcher(
        IF n.tag # "Call" THEN AssertionError
        ELSE IF n.func.tag # "Name" THEN AssertionError
        ELSE IF n.func.id # "isinstance" THEN AssertionError
        ELSE IF Len(n.args) # 2 THEN AssertionError
        ELSE LET subject == n.args[1]
                 maybe_type == n.args[2]
             IN  IF is_dotted_name(maybe_type)
                 THEN Pattern(subject, MatchClass(maybe_type))
                 ELSE IF maybe_type.tag = "Tuple"
                 THEN IF \E i \in 1..Len(maybe_type.elts) :
                             ~is_dotted_name(maybe_type.elts[i])
                      THEN AssertionError
                      ELSE Pattern(subject,
                               MatchOr([i \in 1..Len(maybe_type.elts) |->
                                           MatchClass(maybe_type.elts[i])]))
                 ELSE NoneValue)

match_isinstance(n) ==
    matcher(
        IF n.tag # "Call" THEN AssertionError
        ELSE IF n.func.tag # "Name" THEN AssertionError
        ELSE IF n.func.id # "isinstance" THEN AssertionError
        ELSE IF Len(n.args) # 2 THEN AssertionError
        ELSE IF Len(n.keywords) # 0 THEN AssertionError
        ELSE LET subject == n.args[1]
                 maybe_type == n.args[2]
             IN  IF is_dotted_name(maybe_type)
                 THEN Pattern(subject, MatchClass(maybe_type))
                 ELSE IF maybe_type.tag = "Tuple"
                 THEN IF ~(Len(maybe_type.elts) >= 1) THEN AssertionError
                      ELSE IF \E i \in 1..Len(maybe_type.elts) :
                                  ~is_dotted_name(maybe_type.elts[i])
                      THEN AssertionError
                      ELSE Pattern(subject,
                               MatchOr([i \in 1..Len(maybe_type.elts) |->
                                           MatchClass(maybe_type.elts[i])]))
                 ELSE NoneValue)

----------------------------------------------------------------------------
(* match_constant: the constant-pattern extractor. *)

\* The classes a Python value is an instance of: bool is a subclass of int.
py_mro(type) == IF type = "bool" THEN {"bool", "int"} ELSE {type}

\* The class patterns str() | bytes() | int() | float() | complex().
value_classes == {"str", "bytes", "int", "float", "complex"}

\* The literal patterns True | False | None, matched by identity.
singletons ==
    {[type |-> "bool", repr |-> "True"], [type |-> "bool", repr |-> "False"],
     [type |-> "NoneType", repr |-> "None"]}

is_number_pattern(n) ==
    IF n.tag = "BinOp"
       /\ n.left.tag = "Constant" /\ n.op \in {"Add", "Sub"} /\ n.right.tag = "Constant"
    THEN TRUE
    ELSE IF n.tag = "UnaryOp" /\ n.op = "USub" /\ n.operand.tag = "Constant"
    THEN TRUE
    ELSE FALSE

match_constant(n) ==
    matcher(
        IF n.tag = "Constant" /\ py_mro(n.value.type) \cap value_classes # {}
        THEN MatchValue(n)
        ELSE IF n.tag = "Constant" /\ n.value \in singletons
        THEN MatchSingleton(n.value)
        ELSE IF n.tag = "Attribute" /\ is_dotted_name(n.value)
        THEN MatchValue(n)
        ELSE IF n.tag \in {"UnaryOp", "BinOp"} /\ is_number_pattern(n)
        THEN MatchValue(n)
        ELSE NoneValue)

----------------------------------------------------------------------------
(* The registered transformers. *)

compile_isinstance(n) ==
    matcher(
        LET pattern == match_isinstance(n.test)
        IN  IF pattern = NoneValue THEN AssertionError
            ELSE Case(pattern.subject, match_case(pattern.node, n.body)))

\* A dict, kept as the list of its <<key, value>> items in insertion order.
Dict(items) == [tag |-> "dict", items |-> items]

\* data[key] = value: an existing key keeps its place and takes the new value.
dict_set(data, key, value) ==
    IF \E i \in 1..Len(data.items) : data.items[i][1] = key
    THEN Dict([i \in 1..Len(data.items) |->
                  IF data.items[i][1] = key THEN <<key, value>> ELSE data.items[i]])
    ELSE Dict(Append(data.items, <<key, value>>))

dict_keys(data) == [i \in 1..Len(data.items) |-> data.items[i][1]]

dict_values(data) == [i \in 1..Len(data.items) |-> data.items[i][2]]

\* A mutation of attribute_data: the base of the attribute is not compared
\* with the subject.
RECURSIVE attribute_data_any_base(_, _, _)
attribute_data_any_base(attribute_checks, subject, data) ==
    IF attribute_checks = <<>> THEN data
    ELSE LET attribute_check == Head(attribute_checks)
         IN  IF attribute_check.tag # "Compare" THEN AssertionError
             ELSE IF attribute_check.left.tag # "Attribute" THEN AssertionError
             ELSE IF Len(attribute_check.ops) # 1 THEN AssertionError
             ELSE IF attribute_check.ops[1] # "Eq" THEN AssertionError
             ELSE LET rhs == match_constant(attribute_check.comparators[1])
                  IN  IF rhs = NoneValue THEN AssertionError
                      ELSE attribute_data_any_base(Tail(attribute_checks), subject,
                               dict_set(data, attribute_check.left.attr, rhs))

\* The loop over attribute_checks: the dict data, or AssertionError.
RECURSIVE attribute_data(_, _, _)
attribute_data(attribute_checks, subject, data) ==
    IF attribute_checks = <<>> THEN data
    ELSE LET attribute_check == Head(attribute_checks)
         IN  IF attribute_check.tag # "Compare" THEN AssertionError
             ELSE IF attribute_check.left.tag # "Attribute" THEN AssertionError
             ELSE IF ~compare_ast(attribute_check.left.value, subject) THEN AssertionError
             ELSE IF Len(attribute_check.ops) # 1 THEN AssertionError
             ELSE IF attribute_check.ops[1] # "Eq" THEN AssertionError
             ELSE LET rhs == match_constant(attribute_check.comparators[1])
                  IN  IF rhs = NoneValue THEN AssertionError
                      ELSE attribute_data(Tail(attribute_checks), subject,
                               dict_set(data, attribute_check.left.attr, rhs))

compile_isinstance_attributes(n) ==
    matcher(
        LET test == n.test
        IN  IF test.tag # "BoolOp" THEN AssertionError
            ELSE IF test.op # "And" THEN AssertionError
            ELSE LET pattern == match_isinstance(Head(test.values))
                 IN  IF pattern = NoneValue THEN AssertionError
                     ELSE LET unpacked == Pattern_unpack(pattern)
                              data == attribute_data(Tail(test.values), unpacked[1], Dict(<<>>))
                          IN  IF data = AssertionError THEN AssertionError
                              ELSE LET patterns ==
                                           [i \in 1..Len(unpacked[2]) |->
                                               [unpacked[2][i] EXCEPT
                                                   !.kwd_attrs = dict_keys(data),
                                                   !.kwd_patterns = dict_values(data)]]
                                       packed == Pattern_pack(unpacked[1], patterns)
                                   IN  Case(packed.subject,
                                            match_case(packed.node, n.body)))

\* PatternMatchingifier.transformers, in registration order.
transformers == <<"compile_isinstance", "compile_isinstance_attributes">>

transformer(name, n) ==
    IF name = "compile_isinstance" THEN compile_isinstance(n)
    ELSE compile_isinstance_attributes(n)

\* The inner for loop of match with its break: the first case a transformer
\* returns, or None when the loop runs to its end.
first_case(statement) ==
    IF \E t \in 1..Len(transformers) : transformer(transformers[t], statement) # NoneValue
    THEN LET t == CHOOSE t \in 1..Len(transformers) :
                      /\ transformer(transformers[t], statement) # NoneValue
                      /\ \A u \in 1..(t - 1) :
                             transformer(transformers[u], statement) = NoneValue
         IN  transformer(transformers[t], statement)
    ELSE NoneValue

----------------------------------------------------------------------------
(* PatternMatchingifier.match. *)

MINIMUM_CASE_THRESHOLD == 2

\* assert len(set(ast.dump(subject) for subject in subjects)) == 1
subjects_assert(subjs) ==
    Cardinality({ast_dump(subjs[i]) : i \in 1..Len(subjs)}) = 1

\* assert len(cases) >= self.MINIMUM_CASE_THRESHOLD
threshold_assert(cs) == Len(cs) >= MINIMUM_CASE_THRESHOLD

\* A mutation of with_else_case: the wildcard case is put first.
with_else_case_first(cs, orelse) ==
    IF orelse # <<>> THEN <<match_case(MatchAs, orelse)>> \o cs ELSE cs

\* if group.orelse: cases.append(ast.match_case(ast.MatchAs(), body=group.orelse))
with_else_case(cs, orelse) ==
    IF orelse # <<>> THEN Append(cs, match_case(MatchAs, orelse)) ELSE cs

\* A mutation of conclude: the subjects are not compared.
conclude_any_subject(n, g, cs, subjs) ==
    IF ~threshold_assert(cs) THEN AssertionError
    ELSE ReplacementAction(n, Match(subjs[1], with_else_case(cs, g.orelse)))

\* A mutation of conclude: the threshold is checked after the wildcard case
\* is appended.
conclude_else_counted(n, g, cs, subjs) ==
    IF ~subjects_assert(subjs) THEN AssertionError
    ELSE IF ~threshold_assert(with_else_case(cs, g.orelse)) THEN AssertionError
    ELSE ReplacementAction(n, Match(subjs[1], with_else_case(cs, g.orelse)))

\* What match does once its loop is over: a failed assert leaves match by an
\* AssertionError, which the caller of a rule takes as no action.
conclude(n, g, cs, subjs) ==
    IF ~subjects_assert(subjs) THEN AssertionError
    ELSE IF ~threshold_assert(cs) THEN AssertionError
    ELSE ReplacementAction(n, Match(subjs[1], with_else_case(cs, g.orelse)))

FromSingle ==
    /\ pc = "start"
    /\ cases' = <<>>
    /\ subjects' = <<>>
    /\ group' = IfGroup_from_single(node)
    /\ idx' = 1
    /\ pc' = "loop"
    /\ UNCHANGED <<node, result, arg, ret>>

Transform ==
    /\ pc = "loop"
    /\ idx <= Len(group.stmts)
    /\ LET case == first_case(group.stmts[idx])
       IN  IF case # NoneValue
           THEN /\ cases' = Append(cases, case.stmt)
                /\ subjects' = Append(subjects, case.subject)
           ELSE UNCHANGED <<cases, subjects>>
    /\ idx' = idx + 1
    /\ UNCHANGED <<pc, node, group, result, arg, ret>>

Conclude ==
    /\ pc = "loop"
    /\ idx > Len(group.stmts)
    /\ result' = conclude(node, group, cases, subjects)
    /\ pc' = "done"
    /\ UNCHANGED <<node, group, idx, cases, subjects, arg, ret>>

----------------------------------------------------------------------------
(* The chains match is run on.  Branch i of a chain is on line i: its Name *)
(* nodes have lineno i and its body is the statement Stmt(i).              *)

isinstance_call(subject, type, l) == Call(Name("isinstance", l), <<subject, type>>, <<>>)

eq_guard(base, attr, value) == Compare(Attribute(base, attr), <<"Eq">>, <<value>>)

ChainTestIds == 1..7

ChainTest(k, l) ==
    CASE k = 1 -> isinstance_call(Name("a", l), Name("B", l), l)
      [] k = 2 -> isinstance_call(Name("b", l), Name("C", l), l)
      [] k = 3 -> isinstance_call(Name("a", l),
                      TupleNode(<<Name("C", l), Attribute(Name("D", l), "E")>>), l)
      [] k = 4 -> BoolOp("And", <<isinstance_call(Name("a", l), Name("B", l), l),
                                  eq_guard(Name("a", l), "x", Constant("int", "1"))>>)
      [] k = 5 -> Name("flag", l)
      [] k = 6 -> isinstance_call(Attribute(Name("a", l), "b"), Name("C", l), l)
      [] k = 7 -> BoolOp("Or", <<isinstance_call(Name("a", l), Name("B", l), l),
                                 eq_guard(Name("a", l), "x", Constant("int", "1"))>>)

\* The else block of the last branch: none, one statement, a block that
\* starts with an if, a block of two statements.
ElseBlocks ==
    {<<>>,
     <<Stmt(0)>>,
     <<If(isinstance_call(Name("a", 0), Name("Z", 0), 0), <<Stmt(-1)>>, <<>>), Stmt(0)>>,
     <<Stmt(-1), Stmt(0)>>}

RECURSIVE Chain(_, _, _)
Chain(ks, i, orelse) ==
    If(ChainTest(ks[i], i), <<Stmt(i)>>,
       IF i = Len(ks) THEN orelse ELSE <<Chain(ks, i + 1, orelse)>>)

Chains ==
    UNION {{Chain(ks, 1, orelse) : ks \in [1..n -> ChainTestIds], orelse \in ElseBlocks} :
           n \in 1..MaxBranches}

Init ==
    /\ pc = "start"
    /\ node \in Chains
    /\ group = NoneValue
    /\ idx = 0
    /\ cases = <<>>
    /\ subjects = <<>>
    /\ result = NoneValue
    /\ arg = NoneValue
    /\ ret = NoneValue

Next == FromSingle \/ Transform \/ Conclude

Spec == Init /\ [][Next]_vars

----------------------------------------------------------------------------
(* Properties of match, over Spec. *)

InMatch == pc \in {"loop", "done"}

\* match returned a replacement.
Produced == pc = "done" /\ result.tag = "ReplacementAction"

\* match ended without a replacement: the node stays as it is.
Unchanged == pc = "done" /\ result.tag # "ReplacementAction"

\* Some registered transformer accepts the branch.
Compiles(branch) == first_case(branch) # NoneValue

CompiledBranches == {i \in 1..Len(group.stmts) : Compiles(group.stmts[i])}

IsWildcard(c) == c.pattern = MatchAs

\* C1: when some branch of the flattened chain is accepted by no transformer,
\* match produces no replacement; a replacement means every branch compiled.
C1_AllOrNothing ==
    Produced => \A i \in 1..Len(group.stmts) : Compiles(group.stmts[i])

\* C2: match produces a replacement only if the subject of every compiled
\* branch is structurally equal to the subject of the first compiled branch.
C2_SubjectInvariant ==
    Produced =>
        /\ CompiledBranches # {}
        /\ LET first == CHOOSE i \in CompiledBranches : \A j \in CompiledBranches : i <= j
           IN  /\ \A i \in CompiledBranches :
                      compare_ast(first_case(group.stmts[i]).subject,
                                  first_case(group.stmts[first]).subject)
               /\ result.replacement.subject = first_case(group.stmts[first]).subject

\* A replacement over two branches whose subjects are different nodes with
\* the same structure.
C2_Witness ==
    /\ Produced
    /\ Len(subjects) >= 2
    /\ subjects[1] # subjects[2]

\* C3: in a replacement, case i (the trailing wildcard case aside) has the
\* pattern compiled from branch i and the body of branch i, for every branch.
C3_OrderPreservation ==
    Produced =>
        LET cs == result.replacement.cases
            compiled == SelectSeq(cs, LAMBDA c : ~IsWildcard(c))
        IN  /\ Len(compiled) = Len(group.stmts)
            /\ \A i \in 1..Len(group.stmts) :
                   /\ Compiles(group.stmts[i])
                   /\ cs[i].pattern = first_case(group.stmts[i]).stmt.pattern
                   /\ cs[i].body = group.stmts[i].body

\* C4: in a replacement, a non-empty fallback is the body of exactly one
\* wildcard case, the last case; with an empty fallback no case is a wildcard.
C4_FallbackMapping ==
    Produced =>
        LET cs == result.replacement.cases
            wild == {i \in 1..Len(cs) : IsWildcard(cs[i])}
            last == group.stmts[Len(group.stmts)]
        IN  IF last.orelse # <<>>
            THEN wild = {Len(cs)} /\ cs[Len(cs)].body = last.orelse
            ELSE wild = {}

\* A replacement of a chain that ends in an else block.
C4_Witness ==
    /\ Produced
    /\ group.stmts[Len(group.stmts)].orelse # <<>>
    /\ Len(result.replacement.cases) >= 3

\* C5: a chain with fewer than MINIMUM_CASE_THRESHOLD compiled branches is
\* not rewritten, with or without an else block.
C5_Threshold ==
    (pc = "done" /\ Cardinality(CompiledBranches) < MINIMUM_CASE_THRESHOLD) => Unchanged

\* A chain with one compiled branch and an else block, left as it is.
C5_Witness ==
    /\ Unchanged
    /\ Cardinality(CompiledBranches) = 1
    /\ group.orelse # <<>>

\* C10: the flattened branch list is non-empty, starts with the root, each
\* branch but the last has the next branch as its whole else block, and the
\* fallback is the else block of the last branch, which is empty or is not a
\* single nested if.
C10_Flattening ==
    InMatch =>
        LET stmts == group.stmts
        IN  /\ Len(stmts) >= 1
            /\ stmts[1] = node
            /\ \A i \in 1..(Len(stmts) - 1) :
                   stmts[i].orelse = <<stmts[i + 1]>> /\ stmts[i + 1].tag = "If"
            /\ group.orelse = stmts[Len(stmts)].orelse
            /\ \/ group.orelse = <<>>
               \/ ~(Len(group.orelse) = 1 /\ group.orelse[1].tag = "If")

\* A chain of two branches or more whose else block has two statements, the
\* first of them an if.
C10_Witness ==
    /\ InMatch
    /\ Len(group.stmts) >= 2
    /\ Len(group.orelse) = 2
    /\ group.orelse[1].tag = "If"

----------------------------------------------------------------------------
(* match_isinstance on its own: SpecIsinstance. *)

Idle ==
    /\ node = NoneValue
    /\ group = NoneValue
    /\ idx = 0
    /\ cases = <<>>
    /\ subjects = <<>>
    /\ result = NoneValue

TypeSubjects == {Name("a", 1), Attribute(Name("a", 1), "b")}

\* What a tuple of types may hold: three dotted names, a literal, an
\* attribute of a call.
TypeElts ==
    {Name("C", 1),
     Attribute(Name("D", 1), "E"),
     Attribute(Attribute(Name("D", 1), "E"), "F"),
     Constant("int", "1"),
     Attribute(Call(Name("f", 1), <<>>, <<>>), "x")}

TypeTuples ==
    UNION {{TupleNode(elts) : elts \in [1..n -> TypeElts]} : n \in 0..MaxElts}

TypeSpecs == TypeElts \cup TypeTuples \cup {Call(Name("type", 1), <<Name("a", 1)>>, <<>>)}

CallArgs ==
    {<<>>}
    \cup {<<s>> : s \in TypeSubjects}
    \cup {<<s, t>> : s \in TypeSubjects, t \in TypeSpecs}
    \cup {<<s, Name("B", 1), Name("C", 1)>> : s \in TypeSubjects}

Callees ==
    {Name("isinstance", 1), Name("issubclass", 1),
     Attribute(Name("builtins", 1), "isinstance")}

CallKeywords == {<<>>, <<Keyword("classinfo", Name("C", 1))>>}

IsinstanceInputs ==
    {Call(f, as, kws) : f \in Callees, as \in CallArgs, kws \in CallKeywords}
    \cup {Name("flag", 1), BoolOp("And", <<Name("p", 1), Name("q", 1)>>)}

InitIsinstance ==
    /\ pc = "call"
    /\ arg \in IsinstanceInputs
    /\ ret = NoneValue
    /\ Idle

CallMatchIsinstance ==
    /\ pc = "call"
    /\ ret' = match_isinstance(arg)
    /\ pc' = "return"
    /\ UNCHANGED <<node, group, idx, cases, subjects, result, arg>>

NextIsinstance == CallMatchIsinstance

SpecIsinstance == InitIsinstance /\ [][NextIsinstance]_vars

\* The call is isinstance(x, y): the callee is the name isinstance, with two
\* positional arguments and no keyword.
IsTypeTestCall(n) ==
    /\ n.tag = "Call"
    /\ n.func.tag = "Name"
    /\ n.func.id = "isinstance"
    /\ Len(n.args) = 2
    /\ Len(n.keywords) = 0

\* The class pattern of a type name, with no sub-pattern and no binding.
BareClassPattern(p, type) ==
    /\ p.tag = "MatchClass"
    /\ p.cls = type
    /\ p.patterns = <<>>
    /\ p.kwd_attrs = <<>>
    /\ p.kwd_patterns = <<>>

\* C7: for isinstance(subject, typeSpec), a dotted name gives its class
\* pattern, a tuple of k >= 1 dotted names gives an or-pattern of the k class
\* patterns in order, and anything else (another callee, another arity, a
\* keyword, an empty tuple, a tuple element or a typeSpec that is no dotted
\* name) gives no pattern.
C7_TypeTest ==
    pc = "return" =>
        IF ~IsTypeTestCall(arg) THEN ret = NoneValue
        ELSE LET subject == arg.args[1]
                 typeSpec == arg.args[2]
             IN  IF is_dotted_name(typeSpec)
                 THEN /\ ret.tag = "Pattern"
                      /\ ret.subject = subject
                      /\ BareClassPattern(ret.node, typeSpec)
                 ELSE IF /\ typeSpec.tag = "Tuple"
                         /\ Len(typeSpec.elts) >= 1
                         /\ \A i \in 1..Len(typeSpec.elts) : is_dotted_name(typeSpec.elts[i])
                 THEN /\ ret.tag = "Pattern"
                      /\ ret.subject = subject
                      /\ ret.node.tag = "MatchOr"
                      /\ Len(ret.node.patterns) = Len(typeSpec.elts)
                      /\ \A i \in 1..Len(typeSpec.elts) :
                             BareClassPattern(ret.node.patterns[i], typeSpec.elts[i])
                 ELSE ret = NoneValue

\* isinstance(a, (X, Y)) with two different type names gave an or-pattern.
C7_Witness ==
    /\ pc = "return"
    /\ IsTypeTestCall(arg)
    /\ ret.tag = "Pattern"
    /\ ret.node.tag = "MatchOr"
    /\ Len(ret.node.patterns) >= 2
    /\ ret.node.patterns[1] # ret.node.patterns[2]

----------------------------------------------------------------------------
(* match_constant on its own: SpecConstant. *)

Literals ==
    {Constant("str", "'xyz'"), Constant("bytes", "b'x'"), Constant("int", "1"),
     Constant("int", "0"), Constant("float", "1.5"), Constant("complex", "2j"),
     Constant("bool", "True"), Constant("bool", "False"),
     Constant("NoneType", "None"), Constant("ellipsis", "Ellipsis")}

Operands == {Constant("int", "1"), Constant("complex", "2j"), Name("y", 1)}

ConstantInputs ==
    Literals
    \cup {Name("y", 1),
          Attribute(Name("Color", 1), "RED"),
          Attribute(Attribute(Name("enums", 1), "Color"), "RED"),
          Attribute(Call(Name("f", 1), <<>>, <<>>), "x")}
    \cup {UnaryOp(op, e) : op \in {"USub", "UAdd", "Not"}, e \in Literals \cup {Name("y", 1)}}
    \cup {BinOp(l, op, r) : l \in Operands, op \in {"Add", "Sub", "Mult"}, r \in Operands}

InitConstant ==
    /\ pc = "call"
    /\ arg \in ConstantInputs
    /\ ret = NoneValue
    /\ Idle

CallMatchConstant ==
    /\ pc = "call"
    /\ ret' = match_constant(arg)
    /\ pc' = "return"
    /\ UNCHANGED <<node, group, idx, cases, subjects, result, arg>>

NextConstant == CallMatchConstant

SpecConstant == InitConstant /\ [][NextConstant]_vars

\* C8: a literal True, False or None gives a MatchSingleton, a str, bytes,
\* int, float or complex literal gives a MatchValue.
C8_ConstantKinds ==
    (pc = "return" /\ arg.tag = "Constant" /\ arg.value.type # "ellipsis") =>
        IF arg.value.repr \in {"True", "False", "None"}
        THEN ret = MatchSingleton(arg.value)
        ELSE ret = MatchValue(arg)

----------------------------------------------------------------------------
(* compile_isinstance_attributes on its own: SpecAttributes.  The first    *)
(* operand of the test is on line 1, operand k on line k.                  *)

FirstOperands ==
    {isinstance_call(Name("a", 1), Name("B", 1), 1),
     isinstance_call(Name("a", 1), TupleNode(<<Name("C", 1), Attribute(Name("D", 1), "E")>>), 1),
     isinstance_call(Name("a", 1), TupleNode(<<Name("C", 1)>>), 1),
     isinstance_call(Attribute(Name("a", 1), "b"), Name("C", 1), 1),
     Call(Name("issubclass", 1), <<Name("a", 1), Name("B", 1)>>, <<>>),
     Call(Name("isinstance", 1), <<Name("a", 1)>>, <<>>),
     Name("flag", 1)}

GuardIds == 1..11

Guard(k, l) ==
    CASE k = 1  -> eq_guard(Name("a", l), "x", Constant("int", "1"))
      [] k = 2  -> eq_guard(Name("a", l), "y", Constant("int", "3"))
      [] k = 3  -> eq_guard(Name("a", l), "x", Constant("int", "2"))
      [] k = 4  -> eq_guard(Name("b", l), "x", Constant("int", "1"))
      [] k = 5  -> Compare(Attribute(Name("a", l), "x"), <<"NotEq">>, <<Constant("int", "1")>>)
      [] k = 6  -> eq_guard(Name("a", l), "x", Name("y", l))
      [] k = 7  -> Compare(Attribute(Name("a", l), "x"), <<"Eq", "Eq">>,
                           <<Constant("int", "1"), Constant("int", "2")>>)
      [] k = 8  -> Attribute(Name("a", l), "x")
      [] k = 9  -> Compare(Name("x", l), <<"Eq">>, <<Constant("int", "1")>>)
      [] k = 10 -> eq_guard(Attribute(Name("a", l), "b"), "x", Constant("int", "1"))
      [] k = 11 -> eq_guard(Name("a", l), "z", Constant("NoneType", "None"))

GuardLists ==
    UNION {{[i \in 1..n |-> Guard(ks[i], i + 1)] : ks \in [1..n -> GuardIds]} :
           n \in 1..MaxGuards}

AttributeTests ==
    FirstOperands
    \cup {BoolOp(op, <<f>> \o gs) : op \in {"And", "Or"}, f \in FirstOperands, gs \in GuardLists}

InitAttributes ==
    /\ pc = "call"
    /\ arg \in {If(t, <<Stmt(1)>>, <<>>) : t \in AttributeTests}
    /\ ret = NoneValue
    /\ Idle

CallCompileAttributes ==
    /\ pc = "call"
    /\ ret' = compile_isinstance_attributes(arg)
    /\ pc' = "return"
    /\ UNCHANGED <<node, group, idx, cases, subjects, result, arg>>

NextAttributes == CallCompileAttributes

SpecAttributes == InitAttributes /\ [][NextAttributes]_vars

\* The test is isinstance(S, T) and g_1 and ... and g_n, with a valid type test.
IsTypeTestAnd(test) ==
    /\ test.tag = "BoolOp"
    /\ test.op = "And"
    /\ match_isinstance(Head(test.values)) # NoneValue

\* g is S.attr == value, with a value match_constant extracts.
IsSubjectGuard(g, subject) ==
    /\ g.tag = "Compare"
    /\ Len(g.ops) = 1
    /\ g.ops[1] = "Eq"
    /\ g.left.tag = "Attribute"
    /\ compare_ast(g.left.value, subject)
    /\ match_constant(g.comparators[1]) # NoneValue

\* The class patterns of a case's pattern: those of an or-pattern, or the one.
Alternatives(pattern) ==
    IF pattern.tag = "MatchOr" THEN pattern.patterns ELSE <<pattern>>

\* C6: for isinstance(S, T) and g_1 and ... and g_n, every guard S.attr_k ==
\* value_k, every class pattern of the case has the n bindings
\* attr_k = value_k, one per guard, in guard order.
C6_GuardBindings ==
    (/\ pc = "return"
     /\ IsTypeTestAnd(arg.test)
     /\ \A k \in 2..Len(arg.test.values) :
            IsSubjectGuard(arg.test.values[k], Head(arg.test.values).args[1]))
    =>
        /\ ret.tag = "Case"
        /\ LET guards == Tail(arg.test.values)
               alts == Alternatives(ret.stmt.pattern)
           IN  \A i \in 1..Len(alts) :
                   /\ alts[i].kwd_attrs = [k \in 1..Len(guards) |-> guards[k].left.attr]
                   /\ alts[i].kwd_patterns =
                          [k \in 1..Len(guards) |-> match_constant(guards[k].comparators[1])]

\* C9: compile_isinstance_attributes returns None, and raises nothing, when
\* the test is no BoolOp of And, when its first operand is no valid type
\* test, or when a later operand is not one == comparison of an attribute of
\* the subject with a value match_constant extracts.
C9_Rejection ==
    (/\ pc = "return"
     /\ \/ ~IsTypeTestAnd(arg.test)
        \/ \E k \in 2..Len(arg.test.values) :
               ~IsSubjectGuard(arg.test.values[k], Head(arg.test.values).args[1]))
    => ret = NoneValue

\* A test with a valid type test on a, a guard on a and then a guard on b,
\* rejected.
C9_Witness ==
    /\ pc = "return"
    /\ IsTypeTestAnd(arg.test)
    /\ Len(arg.test.values) = 3
    /\ IsSubjectGuard(arg.test.values[2], Head(arg.test.values).args[1])
    /\ LET g == arg.test.values[3]
       IN  /\ g.tag = "Compare"
           /\ g.ops = <<"Eq">>
           /\ g.left.tag = "Attribute"
           /\ match_constant(g.comparators[1]) # NoneValue
           /\ ~compare_ast(g.left.value, Head(arg.test.values).args[1])
    /\ ret = NoneValue

====
